---- MODULE Spec2Model ----
(***************************************************************************)
(* Database session manager of io-lib (package dbio): OpenDB / readDB /    *)
(* createSchema (Acquire), OutputDB / writeDB (Emit) and CloseDB (Discard),*)
(* run by the stages of a shell pipeline that share one scratch directory. *)
(*                                                                         *)
(* A byte stream or a file is a sequence of tokens (Tok): the engine's     *)
(* header, one token per schema object, one per row.  The engine (sqlite   *)
(* behind database/sql) is modelled by what the calls in dbio.go ask of    *)
(* it: Exec of the schema statements, inserts made through the handle,     *)
(* Close.  With them the package's Logger (Info, Warn, Error, Fatal over   *)
(* insertLog), used by a stage's caller on the handle OpenDB returned, and *)
(* the helper ZeroFill.                                                    *)
(***************************************************************************)
EXTENDS Integers, Sequences, FiniteSets, TLC

(* ---------------------------------------------------------------- bounds *)

\* Statements the callers may make through their handles (inserts, logging
\* operations), all sessions together.
MaxOps == 2

\* Failures of the environment (an I/O error, a failing stat, open, ping,
\* exec or close) in one run, all sessions together.
MaxFaults == 1

\* Failures of os.Remove in one run of SpecFaultyFS.
MaxRemoveFaults == 1

\* Pipeline stages: the first reads an external stream, the second reads the
\* first one's standard output.
Procs == {"p1", "p2"}

\* Names os.CreateTemp("", "arty-*.db") can draw.
Names == {"arty-1.db", "arty-2.db"}

NoPath == ""

\* Longest string passed to ZeroFill, and largest size asked of it.
MaxStrLen == 2
MaxSize == 10

(* ---------------------------------------------------------------- tokens *)

Tok(k, n, s, r) == [k |-> k, n |-> n, s |-> s, r |-> r]
Hdr(n) == Tok("hdr", n, "", 0)
Obj(name) == Tok("obj", 0, name, 0)
IdentRow(id, bible) == Tok("ident", id, bible, 0)
ScriptRow(id, dataset, key) == Tok("scripts", id, key, dataset)
LogRow(id, level) == Tok("log", id, level, 0)
Junk == Tok("junk", 0, "", 0)

ContentKinds == {"obj", "ident", "scripts", "log"}

Range(s) == {s[i] : i \in 1..Len(s)}

Prefix(s, k) == SubSeq(s, 1, k)

(* ------------------------------------------------- the engine's file view *)

\* A file the engine accepts: empty (a new database), or a header that
\* counts the tokens after it, followed by schema objects and rows only.
Valid(b) ==
    \/ b = <<>>
    \/ /\ Len(b) >= 1
       /\ b[1] = Hdr(Len(b) - 1)
       /\ \A i \in 2..Len(b) : b[i].k \in ContentKinds

ObjNames(b) == {t.s : t \in {u \in Range(b) : u.k = "obj"}}

Rows(b, table) == SelectSeq(b, LAMBDA t : t.k = table)

\* A write through the handle: the header is (re)written with the new size.
AppendTok(b, t) ==
    IF b = <<>> THEN <<Hdr(1), t>>
    ELSE <<Hdr(Len(b))>> \o Tail(b) \o <<t>>

\* AUTOINCREMENT: one more than the largest id the table ever held.
NextId(b, table) ==
    LET ids == {t.n : t \in Range(Rows(b, table))}
    IN  IF ids = {} THEN 1 ELSE 1 + CHOOSE m \in ids : \A x \in ids : x <= m

(* ------------------------------------------------------ the engine's Exec *)

Res(b, conn, err) == [b |-> b, conn |-> conn, err |-> err]

Pragma(name) == [op |-> "pragma", name |-> name, on |-> ""]
Table(name) == [op |-> "table", name |-> name, on |-> ""]
Index(name, on) == [op |-> "index", name |-> name, on |-> on]
UniqueIndex(name, on) == [op |-> "unique", name |-> name, on |-> on]

\* Two rows of the table agree on the columns of its unique index.
HasDuplicates(b, table) ==
    LET rows == Rows(b, table)
    IN  \E i, j \in 1..Len(rows) : i # j /\ rows[i].s = rows[j].s

\* CREATE TABLE / CREATE INDEX without IF NOT EXISTS: an existing name is an error.
ExecCreateStrict(b, conn, st) ==
    IF ~Valid(b) THEN Res(b, conn, "file is not a database")
    ELSE IF st.name \in ObjNames(b) THEN Res(b, conn, "already exists")
    ELSE IF st.op \in {"index", "unique"} /\ st.on \notin ObjNames(b)
         THEN Res(b, conn, "no such table")
    ELSE IF st.op = "unique" /\ HasDuplicates(b, st.on)
         THEN Res(b, conn, "UNIQUE constraint failed")
    ELSE Res(AppendTok(b, Obj(st.name)), conn, "nil")

\* CREATE TABLE IF NOT EXISTS / CREATE [UNIQUE] INDEX IF NOT EXISTS.  A
\* unique index cannot be built on rows that already collide.
ExecCreate(b, conn, st) ==
    IF ~Valid(b) THEN Res(b, conn, "file is not a database")
    ELSE IF st.name \in ObjNames(b) THEN Res(b, conn, "nil")
    ELSE IF st.op \in {"index", "unique"} /\ st.on \notin ObjNames(b)
         THEN Res(b, conn, "no such table")
    ELSE IF st.op = "unique" /\ HasDuplicates(b, st.on)
         THEN Res(b, conn, "UNIQUE constraint failed")
    ELSE Res(AppendTok(b, Obj(st.name)), conn, "nil")

\* db.Exec(stmt) of one schema statement.  A pragma sets a property of the
\* connection and does not read the file.  io is an I/O fault of the engine.
Exec(b, conn, st, io) ==
    IF io THEN Res(b, conn, "disk I/O error")
    ELSE IF st.op = "pragma" THEN Res(b, conn \cup {st.name}, "nil")
    ELSE ExecCreate(b, conn, st)

\* Foreign keys are checked on a connection only after PRAGMA foreign_keys = ON.
FkOn(conn) == "foreign_keys = ON" \in conn

\* INSERT INTO ident (bible_id, ...): ident_bible_idx makes bible_id unique.
InsertIdent(b, conn, bible) ==
    IF ~Valid(b) THEN Res(b, conn, "file is not a database")
    ELSE IF "ident" \notin ObjNames(b) THEN Res(b, conn, "no such table")
    ELSE IF /\ "ident_bible_idx" \in ObjNames(b)
            /\ \E t \in Range(Rows(b, "ident")) : t.s = bible
         THEN Res(b, conn, "UNIQUE constraint failed")
    ELSE Res(AppendTok(b, IdentRow(NextId(b, "ident"), bible)), conn, "nil")

\* An insert into scripts on a store whose scripts_idx does not reject a
\* key that is already there.
InsertScriptNoIndex(b, conn, dataset, key) ==
    IF ~Valid(b) THEN Res(b, conn, "file is not a database")
    ELSE IF "scripts" \notin ObjNames(b) THEN Res(b, conn, "no such table")
    ELSE Res(AppendTok(b, ScriptRow(NextId(b, "scripts"), dataset, key)), conn, "nil")

\* INSERT INTO scripts (dataset_id, book_id, chapter_num, verse_str, ...):
\* scripts_idx makes key = (book_id, chapter_num, verse_str) unique; the
\* FOREIGN KEY clause is checked only when the connection enforces it.
InsertScript(b, conn, dataset, key) ==
    IF ~Valid(b) THEN Res(b, conn, "file is not a database")
    ELSE IF "scripts" \notin ObjNames(b) THEN Res(b, conn, "no such table")
    ELSE IF /\ "scripts_idx" \in ObjNames(b)
            /\ \E t \in Range(Rows(b, "scripts")) : t.s = key
         THEN Res(b, conn, "UNIQUE constraint failed")
    ELSE IF /\ FkOn(conn)
            /\ ~\E t \in Range(Rows(b, "ident")) : t.n = dataset
         THEN Res(b, conn, "FOREIGN KEY constraint failed")
    ELSE Res(AppendTok(b, ScriptRow(NextId(b, "scripts"), dataset, key)), conn, "nil")

(* ---------------------------------------------------------- createSchema *)

\* The statements with the index of scripts ahead of its table.
stmtsIndexFirst ==
    << Pragma("temp_store = MEMORY"),
       Table("ident"),
       UniqueIndex("ident_bible_idx", "ident"),
       UniqueIndex("scripts_idx", "scripts"),
       Table("scripts"),
       Index("script_num_idx", "scripts"),
       Index("scripts_file_idx", "scripts"),
       Table("words"),
       UniqueIndex("words_idx", "words"),
       Table("log") >>

\* The FOREIGN KEY clauses of the tables: <<child, parent>>.
References == { <<"scripts", "ident">>, <<"words", "scripts">> }

stmts ==
    << Pragma("temp_store = MEMORY"),
       Table("ident"),
       UniqueIndex("ident_bible_idx", "ident"),
       Table("scripts"),
       UniqueIndex("scripts_idx", "scripts"),
       Index("script_num_idx", "scripts"),
       Index("scripts_file_idx", "scripts"),
       Table("words"),
       UniqueIndex("words_idx", "words"),
       Table("log") >>

SchemaObjects == {stmts[i].name : i \in {j \in 1..Len(stmts) : stmts[j].op # "pragma"}}

\* The loop without its return: a failing statement is remembered and the
\* later ones are executed all the same.
RECURSIVE RunStmtsKeepGoing(_, _, _, _)
RunStmtsKeepGoing(b, conn, i, failAt) ==
    IF i > Len(stmts) THEN [b |-> b, conn |-> conn, err |-> "nil", done |-> i - 1]
    ELSE LET r == Exec(b, conn, stmts[i], i = failAt)
             rest == RunStmtsKeepGoing(r.b, r.conn, i + 1, failAt)
         IN  IF r.err # "nil"
             THEN [b |-> rest.b, conn |-> rest.conn, err |-> r.err, done |-> i]
             ELSE rest

\* The loop of createSchema from statement i on: the first failing Exec ends
\* it.  failAt is the statement the engine fails with an I/O fault (0: none).
\* The result also counts the statements executed (done).
RECURSIVE RunStmts(_, _, _, _)
RunStmts(b, conn, i, failAt) ==
    IF i > Len(stmts) THEN [b |-> b, conn |-> conn, err |-> "nil", done |-> i - 1]
    ELSE LET r == Exec(b, conn, stmts[i], i = failAt)
         IN  IF r.err # "nil"
             THEN [b |-> r.b, conn |-> r.conn, err |-> r.err, done |-> i]
             ELSE RunStmts(r.b, r.conn, i + 1, failAt)

createSchema(b, conn, failAt) == RunStmts(b, conn, 1, failAt)

(* -------------------------------------------------------------- ZeroFill *)

\* A string is the sequence of its characters.
Chars == {"4", "2"}

\* The literal "0000000" that ZeroFill slices its padding from.
Zeros == << "0", "0", "0", "0", "0", "0", "0" >>

Strings == UNION {[1..n -> Chars] : n \in 0..MaxStrLen}

Sizes == (0 - 1)..MaxSize

ZfRet(panic, s) == [panic |-> panic, s |-> s]

\* "0000000"[:k]: a slice beyond the literal's length panics at run time.
SliceZeros(k) ==
    IF k > Len(Zeros) THEN ZfRet(TRUE, <<>>) ELSE ZfRet(FALSE, SubSeq(Zeros, 1, k))

\* ZeroFill(a, size).
ZeroFill(a, size) ==
    LET num == Len(a)
    IN  IF num >= size THEN ZfRet(FALSE, a)
        ELSE LET z == SliceZeros(size - num)
             IN  IF z.panic THEN ZfRet(TRUE, <<>>) ELSE ZfRet(FALSE, z.s \o a)

\* No call of ZeroFill is under way.
ZfIdle == [at |-> "idle", a |-> <<>>, size |-> 0, ret |-> ZfRet(FALSE, <<>>)]

ZfCall(a, size) == [at |-> "call", a |-> a, size |-> size, ret |-> ZfRet(FALSE, <<>>)]

(* ----------------------------------------------------------------- state *)

VARIABLES
    fs,          \* the scratch directory: name -> [exists, data]
    pc,          \* where each stage's process is
    inTerminal,  \* readDB's parameter terminal: isTerminal(os.Stdin)
    outTerminal, \* isTerminal(os.Stdout) as OutputDB found it
    tmpPath,     \* readDB's tmpPath, the caller's dbPath
    db,          \* the *sql.DB: "nil", "open" or "closed"
    conn,        \* the pragmas set on the handle's connection
    openRet,     \* what OpenDB returned: [err, db, path]
    schemaRet,   \* what createSchema returned: [err, done]
    closeErr,    \* what db.Close() returned
    emitRet,     \* what OutputDB returned
    removeErr,   \* what the last os.Remove returned (the code drops it)
    outcome,     \* how the stage's process ended
    stdin,       \* the stream io.Copy read from os.Stdin
    stdinReads,  \* reads made on os.Stdin
    stdout,      \* bytes written to os.Stdout
    stderr,      \* lines written to os.Stderr
    calls,       \* the caller's inserts and logging operations, with their results
    opsLeft,     \* statements the callers may still make
    faultsLeft,  \* failures the environment may still produce
    rmFaultsLeft,\* failures os.Remove may still produce
    inStat,      \* what f.Stat() gave isTerminal(os.Stdin)
    outStat,     \* what f.Stat() gave isTerminal(os.Stdout)
    zf           \* a call of ZeroFill: its arguments and its result

vars == << fs, pc, inTerminal, outTerminal, tmpPath, db, conn, openRet,
           schemaRet, closeErr, emitRet, removeErr, outcome, stdin, stdinReads, stdout, stderr,
           calls, opsLeft, faultsLeft, rmFaultsLeft, inStat, outStat, zf >>

Gone == [exists |-> FALSE, data |-> <<>>]
File(b) == [exists |-> TRUE, data |-> b]

\* The store of stage p, as the engine and the copies see it.
Store(p) == fs[tmpPath[p]].data

(* ---------------------------------------------------- the external streams *)

\* A database with the whole schema and no row: what a first stage emits.
FreshDB == createSchema(<<>>, {}, 0).b

\* A database an earlier pipeline emitted: the schema and one dataset.
SeedDB == InsertIdent(FreshDB, {}, "SPNBDA").b

\* A database of the engine that holds only one of the tables.
PartialDB == <<Hdr(1), Obj("ident")>>

\* A database from elsewhere: a scripts table without its unique index,
\* holding the same verse twice.
DupDB ==
    << Hdr(3), Obj("scripts"), ScriptRow(1, 1, "GEN 1:1"), ScriptRow(2, 1, "GEN 1:1") >>

\* Bytes that are no database.
Garbage == <<Junk>>

Inputs == {<<>>, Garbage, PartialDB, DupDB, SeedDB}

\* The second stage reads the first one's standard output, and its copy ends
\* when the first stage has exited.
StdinReady(p) == p = "p1" \/ pc["p1"] = "exit"
StdinStreams(p) == IF p = "p1" THEN Inputs ELSE {stdout["p1"]}

Bibles == {"ENGWEB", "SPNBDA"}
Datasets == {1}
Keys == {"GEN 1:1", "GEN 1:2"}

(* ------------------------------------------------------------ the library *)

\* os.Remove(path); ok is whether the unlink succeeds.
Remove(f, path, ok) ==
    IF ok /\ path \in Names THEN [f EXCEPT ![path] = Gone] ELSE f

RmErr(ok) == IF ok THEN "nil" ELSE "remove failed"

RemoveOutcomes == IF rmFaultsLeft > 0 THEN BOOLEAN ELSE {TRUE}

\* called: whether the step calls os.Remove at all.
SpendRm(called, ok) == IF called /\ ~ok THEN rmFaultsLeft - 1 ELSE rmFaultsLeft

\* f.Stat() of a stream endpoint: it fails, or tells the endpoint's mode.
\* The pipe between the stages is no terminal: only the first stage's input
\* and the last stage's output can be one.
StatStdin(p) == IF p = "p1" THEN {"statErr", "charDevice", "pipe"} ELSE {"statErr", "pipe"}
StatStdout(p) == IF p = "p2" THEN {"statErr", "charDevice", "pipe"} ELSE {"statErr", "pipe"}

\* A classifier that takes a failing Stat for a terminal.
isTerminalFailClosed(st) == st # "pipe"

isTerminal(st) == IF st = "statErr" THEN FALSE ELSE st = "charDevice"

\* A failing f.Stat() is one of the environment's failures.
StatFault(st) == IF st = "statErr" THEN 1 ELSE 0

CallFault(ok) == IF ok THEN 0 ELSE 1

\* Whether a call of the environment succeeds: it may fail while the run
\* has failures left.
Outcomes == IF faultsLeft > 0 THEN BOOLEAN ELSE {TRUE}

\* The schema statement the engine fails with an I/O fault (0: none).
FailPoints == IF faultsLeft > 0 THEN 0..Len(stmts) ELSE {0}

Spend(ok) == IF ok THEN faultsLeft ELSE faultsLeft - 1

\* Where a failing io.Copy of data may stop: before the first byte, after
\* the first, after the last.
CopyFailPoints(data) == {0, 1, Len(data)} \cap 0..Len(data)

Ret(err, hasDb, path) == [err |-> err, db |-> hasDb, path |-> path]

(* ------------------------------------------------------------------ Init *)

InitCommon ==
    /\ fs = [n \in Names |-> Gone]
    /\ pc = [p \in Procs |-> "start"]
    /\ inTerminal = [p \in Procs |-> FALSE]
    /\ outTerminal = [p \in Procs |-> FALSE]
    /\ tmpPath = [p \in Procs |-> NoPath]
    /\ db = [p \in Procs |-> "nil"]
    /\ conn = [p \in Procs |-> {}]
    /\ openRet = [p \in Procs |-> Ret("unset", FALSE, NoPath)]
    /\ schemaRet = [p \in Procs |-> [err |-> "unset", done |-> 0]]
    /\ closeErr = [p \in Procs |-> "unset"]
    /\ emitRet = [p \in Procs |-> "unset"]
    /\ removeErr = [p \in Procs |-> "unset"]
    /\ outcome = [p \in Procs |-> "running"]
    /\ stdin = [p \in Procs |-> <<>>]
    /\ stdinReads = [p \in Procs |-> 0]
    /\ stdout = [p \in Procs |-> <<>>]
    /\ stderr = [p \in Procs |-> <<>>]
    /\ calls = [p \in Procs |-> <<>>]
    /\ opsLeft = MaxOps
    /\ faultsLeft = MaxFaults
    /\ inStat = [p \in Procs |-> "unset"]
    /\ outStat = [p \in Procs |-> "unset"]

Init == InitCommon /\ rmFaultsLeft = 0 /\ zf = ZfIdle

InitFaultyFS == InitCommon /\ rmFaultsLeft = MaxRemoveFaults /\ zf = ZfIdle

(* --------------------------------------------------------------- Acquire *)

\* A failure path of readDB that returns without removing the temp file.
LeaveStore(f, path, ok) == f

\* readDB, io.Copy failed: tmpFile.Close(); os.Remove(tmpPath).
CopyFailCleanup(f, path, ok) == Remove(f, path, ok)

\* readDB, sql.Open failed: os.Remove(tmpPath).
OpenFailCleanup(f, path, ok) == Remove(f, path, ok)

\* readDB, db.Ping failed: db.Close(); os.Remove(tmpPath).
PingFailCleanup(f, path, ok) == Remove(f, path, ok)

\* OpenDB, createSchema failed: db.Close(); os.Remove(dbPath).
SchemaFailCleanup(f, path, ok) == Remove(f, path, ok)

\* readDB copies whatever the classifier's verdict is.
CopyAlways(terminal) == TRUE

\* readDB with the guard of the copy inverted: if terminal.
CopyInverted(terminal) == terminal

\* readDB's guard of the copy: if !terminal.
ShouldCopy(terminal) == ~terminal

\* A temp file created without O_EXCL: an existing name is taken over.
CreateOverwrite(f, name) == TRUE

\* os.CreateTemp opens its file with O_CREATE|O_EXCL and draws another name
\* when one exists: it never returns a name that exists.
CreateExclusive(f, name) == ~f[name].exists

\* OpenDB calls readDB(os.Stdin, isTerminal(os.Stdin)); readDB creates the
\* temp file.  name = NoPath: os.CreateTemp fails.
OpenDB_CreateTemp(p) ==
    /\ pc[p] = "start"
    /\ \E st \in StatStdin(p), name \in Names \cup {NoPath} :
        /\ name \in Names => CreateExclusive(fs, name)
        /\ StatFault(st) + CallFault(name # NoPath) <= faultsLeft
        /\ faultsLeft' = faultsLeft - (StatFault(st) + CallFault(name # NoPath))
        /\ inStat' = [inStat EXCEPT ![p] = st]
        /\ inTerminal' = [inTerminal EXCEPT ![p] = isTerminal(st)]
        /\ IF name = NoPath
           THEN /\ openRet' = [openRet EXCEPT ![p] = Ret("creating temp db", FALSE, NoPath)]
                /\ pc' = [pc EXCEPT ![p] = "done"]
                /\ UNCHANGED << fs, tmpPath >>
           ELSE /\ fs' = [fs EXCEPT ![name] = File(<<>>)]
                /\ tmpPath' = [tmpPath EXCEPT ![p] = name]
                /\ pc' = [pc EXCEPT ![p] = "copy"]
                /\ UNCHANGED openRet
    /\ UNCHANGED << outTerminal, db, conn, schemaRet, closeErr, emitRet, stdin,
                    stdinReads, stdout, stderr, calls, opsLeft, rmFaultsLeft,
                    outcome, removeErr >>
    /\ UNCHANGED << outStat, zf >>

\* readDB: if !terminal { io.Copy(tmpFile, r) }; tmpFile.Close().  The copy
\* ends at the end of the stream (ok, k bytes = all of it) or with an error
\* after k bytes.
ReadDB_Copy(p) ==
    /\ pc[p] = "copy"
    /\ IF ShouldCopy(inTerminal[p])
       THEN /\ StdinReady(p)
            /\ \E src \in StdinStreams(p) :
               \E k \in CopyFailPoints(src), ok \in Outcomes, rm \in RemoveOutcomes :
                /\ rmFaultsLeft' = SpendRm(~ok, rm)
                /\ ok => k = Len(src)
                /\ faultsLeft' = Spend(ok)
                /\ stdin' = [stdin EXCEPT ![p] = src]
                /\ stdinReads' = [stdinReads EXCEPT ![p] = @ + 1]
                /\ IF ok
                   THEN /\ fs' = [fs EXCEPT ![tmpPath[p]] = File(src)]
                        /\ pc' = [pc EXCEPT ![p] = "open"]
                        /\ UNCHANGED << openRet, removeErr >>
                   ELSE /\ fs' = CopyFailCleanup(
                                    [fs EXCEPT ![tmpPath[p]] = File(Prefix(src, k))],
                                    tmpPath[p], rm)
                        /\ removeErr' = [removeErr EXCEPT ![p] = RmErr(rm)]
                        /\ openRet' = [openRet EXCEPT
                                         ![p] = Ret("reading db from stdin", FALSE, NoPath)]
                        /\ pc' = [pc EXCEPT ![p] = "done"]
       ELSE /\ pc' = [pc EXCEPT ![p] = "open"]
            /\ UNCHANGED << fs, openRet, removeErr, stdin, stdinReads,
                            faultsLeft, rmFaultsLeft >>
    /\ UNCHANGED << inTerminal, outTerminal, tmpPath, db, conn, schemaRet,
                    closeErr, emitRet, stdout, stderr, calls, opsLeft,
                    outcome >>
    /\ UNCHANGED << inStat, outStat, zf >>

\* readDB: db, err := sql.Open("sqlite3", tmpPath).
ReadDB_Open(p) ==
    /\ pc[p] = "open"
    /\ \E ok \in Outcomes, rm \in RemoveOutcomes :
        /\ rmFaultsLeft' = SpendRm(~ok, rm)
        /\ faultsLeft' = Spend(ok)
        /\ IF ok
           THEN /\ db' = [db EXCEPT ![p] = "open"]
                /\ pc' = [pc EXCEPT ![p] = "ping"]
                /\ UNCHANGED << fs, openRet, removeErr >>
           ELSE /\ fs' = OpenFailCleanup(fs, tmpPath[p], rm)
                /\ removeErr' = [removeErr EXCEPT ![p] = RmErr(rm)]
                /\ openRet' = [openRet EXCEPT ![p] = Ret("opening db", FALSE, NoPath)]
                /\ pc' = [pc EXCEPT ![p] = "done"]
                /\ UNCHANGED db
    /\ UNCHANGED << inTerminal, outTerminal, tmpPath, conn, schemaRet, closeErr,
                    emitRet, stdin, stdinReads, stdout, stderr, calls, opsLeft,
                    outcome >>
    /\ UNCHANGED << inStat, outStat, zf >>

\* readDB: db.Ping(); on success readDB returns db, tmpPath, nil to OpenDB.
ReadDB_Ping(p) ==
    /\ pc[p] = "ping"
    /\ \E ok \in Outcomes, rm \in RemoveOutcomes :
        /\ rmFaultsLeft' = SpendRm(~ok, rm)
        /\ faultsLeft' = Spend(ok)
        /\ IF ok
           THEN /\ pc' = [pc EXCEPT ![p] = "schema"]
                /\ UNCHANGED << fs, db, openRet, removeErr >>
           ELSE /\ db' = [db EXCEPT ![p] = "closed"]
                /\ fs' = PingFailCleanup(fs, tmpPath[p], rm)
                /\ removeErr' = [removeErr EXCEPT ![p] = RmErr(rm)]
                /\ openRet' = [openRet EXCEPT ![p] = Ret("pinging db", FALSE, NoPath)]
                /\ pc' = [pc EXCEPT ![p] = "done"]
    /\ UNCHANGED << inTerminal, outTerminal, tmpPath, conn, schemaRet, closeErr,
                    emitRet, stdin, stdinReads, stdout, stderr, calls, opsLeft,
                    outcome >>
    /\ UNCHANGED << inStat, outStat, zf >>

\* OpenDB: err = createSchema(db).
OpenDB_CreateSchema(p) ==
    /\ pc[p] = "schema"
    /\ \E failAt \in FailPoints :
        /\ faultsLeft' = Spend(failAt = 0)
        /\ LET r == createSchema(Store(p), conn[p], failAt)
           IN  /\ fs' = [fs EXCEPT ![tmpPath[p]] = File(r.b)]
               /\ conn' = [conn EXCEPT ![p] = r.conn]
               /\ schemaRet' = [schemaRet EXCEPT ![p] = [err |-> r.err, done |-> r.done]]
    /\ pc' = [pc EXCEPT ![p] = "schema_ret"]
    /\ UNCHANGED << inTerminal, outTerminal, tmpPath, db, openRet, closeErr,
                    emitRet, stdin, stdinReads, stdout, stderr, calls, opsLeft,
                    rmFaultsLeft, outcome, removeErr >>
    /\ UNCHANGED << inStat, outStat, zf >>

\* OpenDB: if err != nil { db.Close(); os.Remove(dbPath); return nil, "", err };
\* return db, dbPath, nil.
OpenDB_Return(p) ==
    /\ pc[p] = "schema_ret"
    /\ UNCHANGED faultsLeft
    /\ \E rm \in RemoveOutcomes :
        /\ rmFaultsLeft' = SpendRm(schemaRet[p].err # "nil", rm)
        /\ IF schemaRet[p].err # "nil"
           THEN /\ db' = [db EXCEPT ![p] = "closed"]
                /\ fs' = SchemaFailCleanup(fs, tmpPath[p], rm)
                /\ removeErr' = [removeErr EXCEPT ![p] = RmErr(rm)]
                /\ openRet' = [openRet EXCEPT ![p] = Ret("schema exec", FALSE, NoPath)]
                /\ pc' = [pc EXCEPT ![p] = "done"]
           ELSE /\ openRet' = [openRet EXCEPT ![p] = Ret("nil", TRUE, tmpPath[p])]
                /\ pc' = [pc EXCEPT ![p] = "ready"]
                /\ UNCHANGED << fs, db, removeErr >>
    /\ UNCHANGED << inTerminal, outTerminal, tmpPath, conn, schemaRet, closeErr,
                    emitRet, stdin, stdinReads, stdout, stderr, calls, opsLeft,
                    outcome >>
    /\ UNCHANGED << inStat, outStat, zf >>

(* ------------------------------------------------ the caller's statements *)

Call(op, s, r, err) == [op |-> op, s |-> s, r |-> r, err |-> err]

\* The caller inserts a dataset identity row through the handle.
Caller_InsertIdent(p) ==
    /\ pc[p] = "ready"
    /\ opsLeft > 0
    /\ \E bible \in Bibles :
        LET r == InsertIdent(Store(p), conn[p], bible)
        IN  /\ fs' = [fs EXCEPT ![tmpPath[p]] = File(r.b)]
            /\ calls' = [calls EXCEPT ![p] = Append(@, Call("ident", bible, 0, r.err))]
    /\ opsLeft' = opsLeft - 1
    /\ UNCHANGED faultsLeft
    /\ UNCHANGED << pc, inTerminal, outTerminal, tmpPath, db, conn, openRet,
                    schemaRet, closeErr, emitRet, stdin, stdinReads, stdout,
                    stderr, rmFaultsLeft, outcome, removeErr >>
    /\ UNCHANGED << inStat, outStat, zf >>

\* The caller inserts a script segment through the handle.
Caller_InsertScript(p) ==
    /\ pc[p] = "ready"
    /\ opsLeft > 0
    /\ \E dataset \in Datasets, key \in Keys :
        LET r == InsertScript(Store(p), conn[p], dataset, key)
        IN  /\ fs' = [fs EXCEPT ![tmpPath[p]] = File(r.b)]
            /\ calls' = [calls EXCEPT ![p] = Append(@, Call("scripts", key, dataset, r.err))]
    /\ opsLeft' = opsLeft - 1
    /\ UNCHANGED faultsLeft
    /\ UNCHANGED << pc, inTerminal, outTerminal, tmpPath, db, conn, openRet,
                    schemaRet, closeErr, emitRet, stdin, stdinReads, stdout,
                    stderr, rmFaultsLeft, outcome, removeErr >>
    /\ UNCHANGED << inStat, outStat, zf >>

(* ------------------------------------------------------------------ Emit *)

Notice ==
    << "stdout is a terminal, skipping database output",
       "pipe to a file or another component to capture the database" >>

\* OutputDB without its defer os.Remove(dbPath).
NoDeferredRemove(f, path, ok) == f

\* OutputDB: defer os.Remove(dbPath), run when OutputDB returns.
DeferredRemove(f, path, ok) == Remove(f, path, ok)

\* The terminal branch of OutputDB with one advisory line only.
TerminalNoticeShort(lines) == lines \o <<Notice[1]>>

\* OutputDB, stdout is a terminal: the two fmt.Fprintln(os.Stderr, ...).
TerminalNotice(lines) == lines \o Notice

\* writeDB going on to read the store whatever db.Close() returned.
AfterCloseUnchecked(ok) == "wr_open"

\* writeDB: if err := db.Close(); err != nil { return ... }.
AfterClose(ok) == IF ok THEN "wr_open" ELSE "out_ret"

\* io.Copy that reports success after len - 1 bytes.
CopyOutShort(data, k, ok) ==
    [out |-> IF ok /\ Len(data) > 0 THEN Prefix(data, Len(data) - 1) ELSE Prefix(data, k),
     err |-> IF ok THEN "nil" ELSE "writing db to stdout"]

\* writeDB: _, err = io.Copy(w, f): the whole file (ok), or an error after
\* k bytes.
CopyOut(data, k, ok) ==
    [out |-> IF ok THEN data ELSE Prefix(data, k),
     err |-> IF ok THEN "nil" ELSE "writing db to stdout"]

\* OutputDB up to the call of writeDB: the classifier's verdict on os.Stdout;
\* on a terminal, the notice, db.Close() with its result dropped, return nil.
OutputDB_Start(p) ==
    /\ pc[p] = "ready"
    /\ \E st \in StatStdout(p), closeOk \in BOOLEAN :
        /\ StatFault(st) + CallFault(closeOk) <= faultsLeft
        /\ outStat' = [outStat EXCEPT ![p] = st]
        /\ outTerminal' = [outTerminal EXCEPT ![p] = isTerminal(st)]
        /\ faultsLeft' = faultsLeft - (StatFault(st) + CallFault(closeOk))
        /\ IF isTerminal(st)
           THEN /\ stderr' = [stderr EXCEPT ![p] = TerminalNotice(@)]
                /\ db' = [db EXCEPT ![p] = "closed"]
                /\ closeErr' = [closeErr EXCEPT ![p] = IF closeOk THEN "nil" ELSE "close failed"]
                /\ emitRet' = [emitRet EXCEPT ![p] = "nil"]
                /\ pc' = [pc EXCEPT ![p] = "out_ret"]
           ELSE /\ closeOk
                /\ pc' = [pc EXCEPT ![p] = "wr_close"]
                /\ UNCHANGED << stderr, db, closeErr, emitRet >>
    /\ UNCHANGED << fs, inTerminal, tmpPath, conn, openRet, schemaRet, stdin,
                    stdinReads, stdout, calls, opsLeft, rmFaultsLeft, outcome,
                    removeErr >>
    /\ UNCHANGED << inStat, zf >>

\* writeDB: db.Close().  The handle is closed whatever Close returns.
WriteDB_Close(p) ==
    /\ pc[p] = "wr_close"
    /\ \E ok \in Outcomes :
        /\ faultsLeft' = Spend(ok)
        /\ db' = [db EXCEPT ![p] = "closed"]
        /\ closeErr' = [closeErr EXCEPT ![p] = IF ok THEN "nil" ELSE "close failed"]
        /\ pc' = [pc EXCEPT ![p] = AfterClose(ok)]
        /\ emitRet' = [emitRet EXCEPT
                         ![p] = IF AfterClose(ok) = "out_ret"
                                THEN "closing db before write" ELSE @]
    /\ UNCHANGED << fs, inTerminal, outTerminal, tmpPath, conn, openRet,
                    schemaRet, stdin, stdinReads, stdout, stderr, calls,
                    opsLeft, rmFaultsLeft, outcome, removeErr >>
    /\ UNCHANGED << inStat, outStat, zf >>

\* writeDB going on to io.Copy whatever os.Open returned.
AfterOpenUnchecked(ok) == "wr_copy"

\* writeDB: f, err := os.Open(dbPath); if err != nil { return ... }.
AfterOpen(ok) == IF ok THEN "wr_copy" ELSE "out_ret"

\* writeDB: f, err := os.Open(dbPath).
WriteDB_Open(p) ==
    /\ pc[p] = "wr_open"
    /\ \E ok \in Outcomes :
        /\ faultsLeft' = Spend(ok)
        /\ pc' = [pc EXCEPT ![p] = AfterOpen(ok /\ fs[tmpPath[p]].exists)]
        /\ emitRet' = [emitRet EXCEPT
                         ![p] = IF ok /\ fs[tmpPath[p]].exists
                                THEN @ ELSE "opening db file for output"]
    /\ UNCHANGED << fs, inTerminal, outTerminal, tmpPath, db, conn, openRet,
                    schemaRet, closeErr, stdin, stdinReads, stdout, stderr,
                    calls, opsLeft, rmFaultsLeft, outcome, removeErr >>
    /\ UNCHANGED << inStat, outStat, zf >>

\* writeDB: io.Copy(w, f), the deferred f.Close(), return.
WriteDB_Copy(p) ==
    /\ pc[p] = "wr_copy"
    /\ \E k \in CopyFailPoints(Store(p)), ok \in Outcomes :
        /\ ok => k = Len(Store(p))
        /\ faultsLeft' = Spend(ok)
        /\ LET c == CopyOut(Store(p), k, ok)
           IN  /\ stdout' = [stdout EXCEPT ![p] = @ \o c.out]
               /\ emitRet' = [emitRet EXCEPT ![p] = c.err]
    /\ pc' = [pc EXCEPT ![p] = "out_ret"]
    /\ UNCHANGED << fs, inTerminal, outTerminal, tmpPath, db, conn, openRet,
                    schemaRet, closeErr, stdin, stdinReads, stderr, calls,
                    opsLeft, rmFaultsLeft, outcome, removeErr >>
    /\ UNCHANGED << inStat, outStat, zf >>

\* OutputDB returns: its deferred os.Remove(dbPath) runs.
OutputDB_Return(p) ==
    /\ pc[p] = "out_ret"
    /\ \E rm \in RemoveOutcomes :
        /\ rmFaultsLeft' = SpendRm(TRUE, rm)
        /\ fs' = DeferredRemove(fs, tmpPath[p], rm)
        /\ removeErr' = [removeErr EXCEPT ![p] = RmErr(rm)]
    /\ UNCHANGED faultsLeft
    /\ pc' = [pc EXCEPT ![p] = "done"]
    /\ UNCHANGED << inTerminal, outTerminal, tmpPath, db, conn, openRet,
                    schemaRet, closeErr, emitRet, stdin, stdinReads, stdout,
                    stderr, calls, opsLeft, outcome >>
    /\ UNCHANGED << inStat, outStat, zf >>

(* --------------------------------------------------------------- Discard *)

\* CloseDB without the db.Close().
DiscardHandleLeftOpen(h) == h

\* CloseDB: db.Close(), its result dropped.
DiscardHandle(h) == "closed"

\* CloseDB: db.Close(); os.Remove(dbPath).  It returns nothing.
CloseDB(p) ==
    /\ pc[p] = "ready"
    /\ \E closeOk \in Outcomes, rm \in RemoveOutcomes :
        /\ rmFaultsLeft' = SpendRm(TRUE, rm)
        /\ faultsLeft' = Spend(closeOk)
        /\ db' = [db EXCEPT ![p] = DiscardHandle(@)]
        /\ closeErr' = [closeErr EXCEPT ![p] = IF closeOk THEN "nil" ELSE "close failed"]
        /\ fs' = Remove(fs, tmpPath[p], rm)
        /\ removeErr' = [removeErr EXCEPT ![p] = RmErr(rm)]
    /\ pc' = [pc EXCEPT ![p] = "done"]
    /\ UNCHANGED << inTerminal, outTerminal, tmpPath, conn, openRet, schemaRet,
                    emitRet, stdin, stdinReads, stdout, stderr, calls, opsLeft,
                    outcome >>
    /\ UNCHANGED << inStat, outStat, zf >>

(* ---------------------------------------------------------------- Logger *)

Levels == {"INFO", "WARN", "ERROR", "FATAL"}

\* fmt.Fprintf(os.Stderr, "ERROR [%s]: %s\n", l.component, msg).
ErrorLine == "ERROR [component]: message"

\* fmt.Fprintf(os.Stderr, "WARN [%s]: failed to write log to db: %v\n", ...).
WarnLine == "WARN [component]: failed to write log to db"

\* The db the caller passed to NewLogger: what OpenDB returned to it, nil
\* when OpenDB failed.
LoggerDB(p) == IF openRet[p].db THEN db[p] ELSE "nil"

\* l.db.Exec(`INSERT INTO log (component, level, message) VALUES (?, ?, ?)`)
\* on a handle that is not nil.
InsertLog(h, b, level, io) ==
    IF h = "closed" THEN [b |-> b, err |-> "sql: database is closed"]
    ELSE IF io THEN [b |-> b, err |-> "disk I/O error"]
    ELSE IF ~Valid(b) THEN [b |-> b, err |-> "file is not a database"]
    ELSE IF "log" \notin ObjNames(b) THEN [b |-> b, err |-> "no such table"]
    ELSE [b |-> AppendTok(b, LogRow(NextId(b, "log"), level)), err |-> "nil"]

LogRet(b, lines, err, panic) == [b |-> b, lines |-> lines, err |-> err, panic |-> panic]

\* insertLog without its guard: Exec through a nil *sql.DB panics.
insertLogNoNilCheck(h, b, lines, level, io) ==
    IF h = "nil" THEN LogRet(b, lines, "nil pointer dereference", TRUE)
    ELSE LET r == InsertLog(h, b, level, io)
         IN  LogRet(r.b, IF r.err # "nil" THEN Append(lines, WarnLine) ELSE lines,
                    r.err, FALSE)

\* insertLog that gives up on a failed insert: panic(err).
insertLogAborts(h, b, lines, level, io) ==
    IF h = "nil" THEN LogRet(b, lines, "skipped", FALSE)
    ELSE LET r == InsertLog(h, b, level, io)
         IN  LogRet(r.b, lines, r.err, r.err # "nil")

\* Logger.insertLog: if l.db == nil { return }; Exec; on an error, a line on
\* os.Stderr.  lines is the process's os.Stderr.
insertLog(h, b, lines, level, io) ==
    IF h = "nil" THEN LogRet(b, lines, "skipped", FALSE)
    ELSE LET r == InsertLog(h, b, level, io)
         IN  LogRet(r.b, IF r.err # "nil" THEN Append(lines, WarnLine) ELSE lines,
                    r.err, FALSE)

\* A logger whose every operation prints to os.Stderr.
EchoesAll(level) == TRUE

\* Error prints to os.Stderr after insertLog, and Fatal calls Error.
Echoes(level) == level \in {"ERROR", "FATAL"}

\* Fatal: os.Exit(1) after l.Error(args...).
Terminates(level) == level = "FATAL"

Last(s) == s[Len(s)]

\* Where the caller is when a logging operation returns to it.
Back(p) == IF openRet[p].db /\ db[p] = "open" THEN "ready" ELSE "done"

\* Where the operation goes on after its insertLog.
AfterInsert(p, level) == IF Echoes(level) THEN "log_echo" ELSE Back(p)

\* msg := joinArgs(args); l.insertLog(level, msg): the part the four
\* operations share.  The engine's I/O may fail only on an open handle.
LogCall(p, level) ==
    /\ \E ok \in Outcomes :
        /\ ~ok => LoggerDB(p) = "open"
        /\ faultsLeft' = Spend(ok)
        /\ LET b == IF tmpPath[p] \in Names THEN Store(p) ELSE <<>>
               r == insertLog(LoggerDB(p), b, stderr[p], level, ~ok)
           IN  /\ fs' = IF r.b # b THEN [fs EXCEPT ![tmpPath[p]] = File(r.b)] ELSE fs
               /\ stderr' = [stderr EXCEPT ![p] = r.lines]
               /\ calls' = [calls EXCEPT ![p] = Append(@, Call("log", level, 0, r.err))]
               /\ pc' = [pc EXCEPT ![p] = IF r.panic THEN "panic"
                                          ELSE AfterInsert(p, level)]
    /\ opsLeft' = opsLeft - 1
    /\ UNCHANGED << inTerminal, outTerminal, tmpPath, db, conn, openRet,
                    schemaRet, closeErr, emitRet, removeErr, outcome, stdin,
                    stdinReads, stdout, rmFaultsLeft, inStat, outStat, zf >>

\* The caller has a Logger from OpenDB's return on, whatever OpenDB returned,
\* and may still make a statement.
CanLog(p) == pc[p] \in {"ready", "done"} /\ opsLeft > 0

Logger_Info(p) ==
    /\ CanLog(p)
    /\ LogCall(p, "INFO")

Logger_Warn(p) ==
    /\ CanLog(p)
    /\ LogCall(p, "WARN")

\* Error up to the return of its insertLog.
Logger_Error(p) ==
    /\ CanLog(p)
    /\ LogCall(p, "ERROR")

\* Fatal: l.Error(args...) up to the return of its insertLog.
Logger_Fatal(p) ==
    /\ CanLog(p)
    /\ LogCall(p, "FATAL")

\* Error: fmt.Fprintf(os.Stderr, "ERROR [%s]: %s\n", l.component, msg).
Logger_Echo(p) ==
    /\ pc[p] = "log_echo"
    /\ stderr' = [stderr EXCEPT ![p] = Append(@, ErrorLine)]
    /\ pc' = [pc EXCEPT ![p] = IF Terminates(Last(calls[p]).s) THEN "log_exit"
                               ELSE Back(p)]
    /\ UNCHANGED << fs, inTerminal, outTerminal, tmpPath, db, conn, openRet,
                    schemaRet, closeErr, emitRet, removeErr, outcome, stdin,
                    stdinReads, stdout, calls, opsLeft, faultsLeft,
                    rmFaultsLeft, inStat, outStat, zf >>

\* The process is gone: its memory with it, its files left where they are.
ProcessEnds(p, how) ==
    /\ pc' = [pc EXCEPT ![p] = "exit"]
    /\ inTerminal' = [inTerminal EXCEPT ![p] = FALSE]
    /\ outTerminal' = [outTerminal EXCEPT ![p] = FALSE]
    /\ inStat' = [inStat EXCEPT ![p] = "unset"]
    /\ outStat' = [outStat EXCEPT ![p] = "unset"]
    /\ tmpPath' = [tmpPath EXCEPT ![p] = NoPath]
    /\ db' = [db EXCEPT ![p] = "nil"]
    /\ conn' = [conn EXCEPT ![p] = {}]
    /\ openRet' = [openRet EXCEPT ![p] = Ret("unset", FALSE, NoPath)]
    /\ schemaRet' = [schemaRet EXCEPT ![p] = [err |-> "unset", done |-> 0]]
    /\ closeErr' = [closeErr EXCEPT ![p] = "unset"]
    /\ emitRet' = [emitRet EXCEPT ![p] = "unset"]
    /\ removeErr' = [removeErr EXCEPT ![p] = "unset"]
    /\ outcome' = [outcome EXCEPT ![p] = how]
    /\ UNCHANGED << fs, stdin, stdinReads, stdout, stderr, calls, opsLeft,
                    faultsLeft, rmFaultsLeft, zf >>

\* Fatal: os.Exit(1).  No deferred call runs.
Logger_OsExit(p) ==
    /\ pc[p] = "log_exit"
    /\ ProcessEnds(p, "fatal")

(* ------------------------------------------------------------------ exit *)

\* The stage's process ends after OpenDB failed or OutputDB or CloseDB
\* returned: its memory is gone and its end of the pipe is closed.  What it
\* read and wrote, and what its caller did, stay on record.
Outcome(p) ==
    IF openRet[p].err # "nil" THEN "acquire failed"
    ELSE IF emitRet[p] = "unset" THEN "discarded"
    ELSE IF emitRet[p] = "nil" THEN "emitted"
    ELSE "emit failed"

Exit(p) ==
    /\ pc[p] = "done"
    /\ pc' = [pc EXCEPT ![p] = "exit"]
    /\ inTerminal' = [inTerminal EXCEPT ![p] = FALSE]
    /\ outTerminal' = [outTerminal EXCEPT ![p] = FALSE]
    /\ inStat' = [inStat EXCEPT ![p] = "unset"]
    /\ outStat' = [outStat EXCEPT ![p] = "unset"]
    /\ tmpPath' = [tmpPath EXCEPT ![p] = NoPath]
    /\ db' = [db EXCEPT ![p] = "nil"]
    /\ conn' = [conn EXCEPT ![p] = {}]
    /\ openRet' = [openRet EXCEPT ![p] = Ret("unset", FALSE, NoPath)]
    /\ schemaRet' = [schemaRet EXCEPT ![p] = [err |-> "unset", done |-> 0]]
    /\ closeErr' = [closeErr EXCEPT ![p] = "unset"]
    /\ emitRet' = [emitRet EXCEPT ![p] = "unset"]
    /\ removeErr' = [removeErr EXCEPT ![p] = "unset"]
    /\ outcome' = [outcome EXCEPT ![p] = Outcome(p)]
    /\ UNCHANGED << fs, stdin, stdinReads, stdout, stderr, calls, opsLeft,
                    faultsLeft, rmFaultsLeft >>
    /\ UNCHANGED << zf >>

(* ------------------------------------------------------------------ Next *)

Next ==
    \E p \in Procs :
        \/ OpenDB_CreateTemp(p)
        \/ ReadDB_Copy(p)
        \/ ReadDB_Open(p)
        \/ ReadDB_Ping(p)
        \/ OpenDB_CreateSchema(p)
        \/ OpenDB_Return(p)
        \/ Caller_InsertIdent(p)
        \/ Caller_InsertScript(p)
        \/ OutputDB_Start(p)
        \/ WriteDB_Close(p)
        \/ WriteDB_Open(p)
        \/ WriteDB_Copy(p)
        \/ OutputDB_Return(p)
        \/ CloseDB(p)
        \/ Exit(p)

Spec == Init /\ [][Next]_vars

\* The same program in a scratch directory where os.Remove may fail.
SpecFaultyFS == InitFaultyFS /\ [][Next]_vars

(* ------------------------------------- stages that log through the handle *)

\* Logging is local to a process: one stage, the first.
LogProcs == {"p1"}

\* The stage's caller uses the handle, or the nil OpenDB returned with its
\* error, for a Logger and makes no other statement.
NextLog ==
    \E p \in LogProcs :
        \/ OpenDB_CreateTemp(p)
        \/ ReadDB_Copy(p)
        \/ ReadDB_Open(p)
        \/ ReadDB_Ping(p)
        \/ OpenDB_CreateSchema(p)
        \/ OpenDB_Return(p)
        \/ Logger_Info(p)
        \/ Logger_Warn(p)
        \/ Logger_Error(p)
        \/ Logger_Fatal(p)
        \/ Logger_Echo(p)
        \/ Logger_OsExit(p)
        \/ OutputDB_Start(p)
        \/ WriteDB_Close(p)
        \/ WriteDB_Open(p)
        \/ WriteDB_Copy(p)
        \/ OutputDB_Return(p)
        \/ CloseDB(p)
        \/ Exit(p)

SpecLog == Init /\ [][NextLog]_vars

(* ------------------------------------------------------ a call of ZeroFill *)

InitZeroFill ==
    /\ InitCommon
    /\ rmFaultsLeft = 0
    /\ \E a \in Strings, size \in Sizes : zf = ZfCall(a, size)

\* The call returns its string, or the process panics in the slice.
ZeroFill_Call ==
    /\ zf.at = "call"
    /\ LET r == ZeroFill(zf.a, zf.size)
       IN  zf' = [zf EXCEPT !.at = IF r.panic THEN "panic" ELSE "ret", !.ret = r]
    /\ UNCHANGED << fs, pc, inTerminal, outTerminal, tmpPath, db, conn, openRet,
                    schemaRet, closeErr, emitRet, removeErr, outcome, stdin,
                    stdinReads, stdout, stderr, calls, opsLeft, faultsLeft,
                    rmFaultsLeft, inStat, outStat >>

NextZeroFill == ZeroFill_Call

SpecZeroFill == InitZeroFill /\ [][NextZeroFill]_vars

(* ====================================================== the claims' terms *)

\* Stage q holds the scratch file n: between its CreateTemp and its last
\* os.Remove.
Holds(q, n) ==
    /\ tmpPath[q] = n
    /\ pc[q] \in {"copy", "open", "ping", "schema", "schema_ret", "ready",
                  "wr_close", "wr_open", "wr_copy", "out_ret"}

\* No scratch file is left that stage p created: every file that exists is
\* the store of another stage that still holds it.
NoStoreOf(p) ==
    \A n \in Names : fs[n].exists => \E q \in Procs \ {p} : Holds(q, n)

AcquireFailed(p) == pc[p] = "done" /\ openRet[p].err \notin {"unset", "nil"}

EmitReturned(p) == pc[p] = "done" /\ emitRet[p] # "unset"

\* OutputDB is at work on, or has returned from, the branch of a piped output.
EmitPiped(p) ==
    \/ pc[p] \in {"wr_close", "wr_open", "wr_copy"}
    \/ pc[p] \in {"out_ret", "done"} /\ emitRet[p] # "unset" /\ ~outTerminal[p]

\* OutputDB took, and returned from, the branch of a terminal output.
EmitTerminal(p) ==
    pc[p] \in {"out_ret", "done"} /\ emitRet[p] # "unset" /\ outTerminal[p]

\* writeDB has opened the store for reading.
ReadBack(p) ==
    \/ pc[p] = "wr_copy"
    \/ EmitPiped(p) /\ emitRet[p] \in {"nil", "writing db to stdout"}

NoticeLines(lines) == SelectSeq(lines, LAMBDA l : l \in Range(Notice))

(* ------------------------------------------------------------------- C1 *)

\* C1: when OpenDB returns an error - os.CreateTemp, io.Copy, sql.Open,
\* db.Ping or a schema statement failed - it returns no handle and no path,
\* no handle is left open, and no scratch file of this stage exists.
C1_FailedAcquireLeavesNothing ==
    \A p \in Procs :
        AcquireFailed(p) =>
            /\ openRet[p].db = FALSE
            /\ openRet[p].path = NoPath
            /\ db[p] # "open"
            /\ NoStoreOf(p)

\* A failed ping, after the store was created and the input copied into it.
C1_Witness ==
    \E p \in Procs :
        /\ AcquireFailed(p)
        /\ openRet[p].err = "pinging db"
        /\ tmpPath[p] \in Names
        /\ stdinReads[p] = 1
        /\ removeErr[p] = "nil"

(* ------------------------------------------------------------------- C2 *)

\* C2: whenever OutputDB has returned, with nil or with any of writeDB's
\* errors, the handle is closed and the stage's store no longer exists.
C2_EmitAlwaysCleansUp ==
    \A p \in Procs :
        EmitReturned(p) => db[p] = "closed" /\ NoStoreOf(p)

\* OutputDB returned the copy's error after part of the store was written.
C2_Witness ==
    \E p \in Procs :
        /\ EmitReturned(p)
        /\ emitRet[p] = "writing db to stdout"
        /\ stdout[p] # <<>>
        /\ removeErr[p] = "nil"

(* ------------------------------------------------------------------- C3 *)

\* C3: on a piped output, the store is opened for reading only with the
\* handle closed and Close having returned nil; no byte is on the output
\* before that; and when writeDB returns nil the output holds exactly the
\* store's bytes, in order.
C3_CloseThenStreamWholeStore ==
    \A p \in Procs :
        /\ ReadBack(p) => db[p] = "closed" /\ closeErr[p] = "nil"
        /\ (pc[p] # "exit" /\ stdout[p] # <<>>) =>
               db[p] = "closed" /\ closeErr[p] = "nil" /\ ReadBack(p)
        /\ (pc[p] = "out_ret" /\ EmitPiped(p) /\ emitRet[p] = "nil") =>
               fs[tmpPath[p]].exists /\ stdout[p] = Store(p)

\* writeDB returned nil after streaming a store that holds a row the caller
\* inserted; the deferred remove has not run yet.
C3_Witness ==
    \E p \in Procs :
        /\ pc[p] = "out_ret"
        /\ EmitPiped(p)
        /\ emitRet[p] = "nil"
        /\ \E i \in 1..Len(calls[p]) : calls[p][i].err = "nil"
        /\ Len(stdout[p]) > Len(FreshDB)

(* ------------------------------------------------------------------- C4 *)

\* C4: on a terminal output, OutputDB writes no byte to the output, writes
\* exactly the two advisory lines to the diagnostic channel, closes the
\* handle and returns nil, also when Close fails.
C4_TerminalEmitWithholdsOutput ==
    \A p \in Procs :
        EmitTerminal(p) =>
            /\ stdout[p] = <<>>
            /\ NoticeLines(stderr[p]) = Notice
            /\ Len(NoticeLines(stderr[p])) = 2
            /\ db[p] = "closed"
            /\ emitRet[p] = "nil"

\* The terminal branch returned nil although db.Close() failed.
C4_Witness ==
    \E p \in Procs :
        /\ EmitTerminal(p)
        /\ closeErr[p] = "close failed"
        /\ pc[p] = "done"
        /\ \E i \in 1..Len(calls[p]) : calls[p][i].err = "nil"

(* ------------------------------------------------------------------- C5 *)

DataRows(b) == SelectSeq(b, LAMBDA t : t.k \in {"ident", "scripts", "log"})

RowKey(k, s, r) == [k |-> k, s |-> s, r |-> r]

\* The rows of a stream or store, in order, without their generated ids.
RowKeys(b) ==
    LET d == DataRows(b) IN [i \in 1..Len(d) |-> RowKey(d[i].k, d[i].s, d[i].r)]

\* The rows the caller of stage p inserted with success, in order.
Written(p) ==
    LET d == SelectSeq(calls[p], LAMBDA c : c.err = "nil")
    IN  [i \in 1..Len(d) |-> RowKey(d[i].op, d[i].s, d[i].r)]

\* OpenDB has returned a handle to the stage's caller and OutputDB or CloseDB
\* has not removed the store yet.
Acquired(p) == pc[p] \in {"ready", "wr_close", "wr_open", "wr_copy", "out_ret"}

\* C5: the bytes a stage emits hold the rows of its input followed by every
\* row its caller inserted; the next stage reads exactly those bytes, its
\* Acquire fails only when the environment does, and its store holds the
\* same rows.  From an empty piped input and one ident row "ENGWEB", the
\* second stage's store holds exactly that one ident row.
C5_ChainedSessionsKeepRows ==
    /\ \A p \in Procs :
        (pc[p] = "out_ret" /\ EmitPiped(p) /\ emitRet[p] = "nil") =>
            RowKeys(stdout[p]) = RowKeys(stdin[p]) \o Written(p)
    /\ (outcome["p1"] = "emitted" /\ Acquired("p2")) =>
            /\ stdin["p2"] = stdout["p1"]
            /\ RowKeys(Store("p2")) = RowKeys(stdin["p1"]) \o Written("p1") \o Written("p2")
    /\ (outcome["p1"] = "emitted" /\ pc["p2"] = "done" /\ faultsLeft = MaxFaults) =>
            openRet["p2"].err = "nil"
    /\ ( /\ outcome["p1"] = "emitted"
         /\ stdinReads["p1"] = 1
         /\ stdin["p1"] = <<>>
         /\ calls["p1"] = <<Call("ident", "ENGWEB", 0, "nil")>>
         /\ pc["p2"] = "ready"
         /\ calls["p2"] = <<>> ) =>
            Rows(Store("p2"), "ident") = <<IdentRow(1, "ENGWEB")>>

\* The end-to-end scenario: the second stage holds a handle on the bytes the
\* first stage emitted after inserting "ENGWEB" into an empty piped input.
C5_Witness ==
    /\ outcome["p1"] = "emitted"
    /\ stdinReads["p1"] = 1
    /\ stdin["p1"] = <<>>
    /\ calls["p1"] = <<Call("ident", "ENGWEB", 0, "nil")>>
    /\ pc["p2"] = "ready"
    /\ calls["p2"] = <<>>
    /\ stdinReads["p2"] = 1
    /\ Len(stdin["p2"]) > 1

(* ------------------------------------------------------------------- C6 *)

\* The store holds every table and index of the schema.
HasSchema(b) == Valid(b) /\ SchemaObjects \subseteq ObjNames(b)

\* What follows the header.
Content(b) == IF b = <<>> THEN <<>> ELSE Tail(b)

\* writeDB returned nil for a stage that copied its input and whose caller
\* made no statement.
PassThrough(p) ==
    /\ pc[p] = "out_ret"
    /\ EmitPiped(p)
    /\ emitRet[p] = "nil"
    /\ stdinReads[p] = 1
    /\ calls[p] = <<>>

\* C6 as stated: a valid serialized database passed through OpenDB and
\* OutputDB with no statement of the caller comes out identical.
C6_PassThroughIdentical ==
    \A p \in Procs :
        (PassThrough(p) /\ Valid(stdin[p]) /\ stdin[p] # <<>>) => stdout[p] = stdin[p]

\* C6 (amended): the output is identical to the input when the input already
\* holds the whole schema; otherwise it is the input's content, in order,
\* followed by one object for each table and index the input lacked, and
\* nothing else.
C6_PassThroughUpToBootstrap ==
    \A p \in Procs :
        PassThrough(p) =>
            LET in == Content(stdin[p])
                out == Content(stdout[p])
                added == SubSeq(out, Len(in) + 1, Len(out))
            IN  /\ HasSchema(stdin[p]) => stdout[p] = stdin[p]
                /\ Valid(stdout[p])
                /\ Len(out) >= Len(in)
                /\ Prefix(out, Len(in)) = in
                /\ \A t \in Range(added) : t.k = "obj"
                /\ {t.s : t \in Range(added)} = SchemaObjects \ ObjNames(stdin[p])
                /\ Len(added) = Cardinality(SchemaObjects \ ObjNames(stdin[p]))

\* The second stage passed through, byte for byte, a database with a row
\* that the first stage emitted.
C6_Witness ==
    /\ PassThrough("p2")
    /\ outcome["p1"] = "emitted"
    /\ HasSchema(stdin["p2"])
    /\ DataRows(stdin["p2"]) # <<>>
    /\ stdout["p2"] = stdin["p2"]

(* ------------------------------------------------------------------- C7 *)

\* C7: every script segment of a store references an existing dataset
\* identity (so an insert with an unknown dataset_id fails).
C7_ForeignKeyEnforced ==
    \A p \in Procs :
        Acquired(p) =>
            \A t \in Range(Rows(Store(p), "scripts")) :
                \E d \in Range(Rows(Store(p), "ident")) : d.n = t.r

(* ------------------------------------------------------------------- C8 *)

NoDuplicateObjects(b) ==
    \A i, j \in 1..Len(b) :
        (b[i].k = "obj" /\ b[j].k = "obj" /\ b[i].s = b[j].s) => i = j

\* C8: createSchema run on a store that already holds the schema (the
\* copied input of this stage, such as the previous stage's output) returns
\* no error of its statements and leaves the store as it was, rows
\* included; no store ever holds a table or an index twice.
C8_BootstrapIdempotent ==
    \A p \in Procs :
        /\ (pc[p] = "schema_ret" /\ stdinReads[p] = 1 /\ HasSchema(stdin[p])) =>
               /\ schemaRet[p].err \in {"nil", "disk I/O error"}
               /\ Store(p) = stdin[p]
        /\ (pc[p] = "schema_ret" \/ Acquired(p)) => NoDuplicateObjects(Store(p))

\* createSchema returned nil on the store the previous stage bootstrapped
\* and wrote a row to.
C8_Witness ==
    /\ pc["p2"] = "schema_ret"
    /\ outcome["p1"] = "emitted"
    /\ stdinReads["p2"] = 1
    /\ HasSchema(stdin["p2"])
    /\ DataRows(stdin["p2"]) # <<>>
    /\ schemaRet["p2"].err = "nil"
    /\ schemaRet["p2"].done = Len(stmts)

(* ------------------------------------------------------------------- C9 *)

\* C9: with a terminal input OpenDB never reads os.Stdin, and the handle it
\* returns is on a store that holds the schema's tables and indices, once
\* each, and no row.
C9_TerminalInputStartsEmpty ==
    \A p \in Procs :
        /\ (inTerminal[p] /\ pc[p] \notin {"start", "exit"}) =>
               stdinReads[p] = 0 /\ stdin[p] = <<>>
        /\ (inTerminal[p] /\ pc[p] = "ready" /\ calls[p] = <<>>) =>
               /\ openRet[p] = Ret("nil", TRUE, tmpPath[p])
               /\ db[p] = "open"
               /\ fs[tmpPath[p]].exists
               /\ Valid(Store(p))
               /\ ObjNames(Store(p)) = SchemaObjects
               /\ NoDuplicateObjects(Store(p))
               /\ DataRows(Store(p)) = <<>>

\* OpenDB returned a handle to a stage whose input is a terminal.
C9_Witness ==
    \E p \in Procs :
        /\ inTerminal[p]
        /\ pc[p] = "ready"
        /\ calls[p] = <<>>
        /\ Len(Store(p)) > 1

(* ------------------------------------------------------------------ C10 *)

\* CloseDB has returned.
Discarded(p) == pc[p] = "done" /\ openRet[p].err = "nil" /\ emitRet[p] = "unset"

\* C10: after CloseDB the handle is closed, os.Remove was called on the
\* store, which is gone unless that call failed, nothing was written to the
\* output or the diagnostic channel, and no error value exists, also when
\* Close or Remove failed.
C10_DiscardSilent ==
    \A p \in Procs :
        Discarded(p) =>
            /\ db[p] = "closed"
            /\ closeErr[p] \in {"nil", "close failed"}
            /\ removeErr[p] \in {"nil", "remove failed"}
            /\ removeErr[p] = "nil" =>
                   (fs[tmpPath[p]].exists => \E q \in Procs \ {p} : Holds(q, tmpPath[p]))
            /\ stdout[p] = <<>>
            /\ stderr[p] = <<>>

\* CloseDB returned although both db.Close() and os.Remove failed.
C10_Witness ==
    \E p \in Procs :
        /\ Discarded(p)
        /\ closeErr[p] = "close failed"
        /\ removeErr[p] = "remove failed"
        /\ fs[tmpPath[p]].exists

(* ------------------------------------------------------------------ C11 *)

\* Every statement stage p's caller made was a logging operation on a
\* Logger built with a nil handle.
NilLogger(p) ==
    /\ calls[p] # <<>>
    /\ \A i \in 1..Len(calls[p]) : calls[p][i].op = "log" /\ calls[p][i].err = "skipped"

\* Stage p takes the step in which a logging operation runs its insertLog.
LogStep(p) == Len(calls'[p]) = Len(calls[p]) + 1 /\ Last(calls'[p]).op = "log"

\* Stage p takes the step of Error's Fprintf.
EchoStep(p) == pc[p] = "log_echo" /\ pc'[p] # "log_echo"

LogRows(f, path) == IF path \in Names THEN Rows(f[path].data, "log") ELSE <<>>

\* C11 as stated: with a nil handle Info, Warn, Error and Fatal write no
\* row, write nothing to the diagnostic channel, do not end the process and
\* do not crash.
C11_NilHandleAllNoOps ==
    \A p \in Procs :
        NilLogger(p) =>
            /\ stderr[p] = <<>>
            /\ outcome[p] # "fatal"
            /\ pc[p] # "panic"

\* C11 (amended): with a nil handle no operation writes a row, prints the
\* warning of a failed insert or crashes; Info and Warn do nothing at all;
\* Error still prints its line to the diagnostic channel, and Fatal prints
\* it and ends the process.
C11_NilHandleSkipsInsert ==
    /\ [](\A p \in Procs : pc[p] # "panic")
    /\ [](\A p \in Procs :
             NilLogger(p) =>
                 /\ \A i \in 1..Len(stderr[p]) : stderr[p][i] = ErrorLine
                 /\ Len(stderr[p]) <=
                        Cardinality({i \in 1..Len(calls[p]) :
                                        calls[p][i].s \in {"ERROR", "FATAL"}})
                 /\ outcome[p] = "fatal" =>
                        /\ Last(calls[p]).s = "FATAL"
                        /\ Last(stderr[p]) = ErrorLine)
    /\ [][\A p \in Procs :
             /\ (LogStep(p) /\ LoggerDB(p) = "nil") =>
                    /\ Last(calls'[p]).err = "skipped"
                    /\ fs' = fs
                    /\ stderr'[p] = stderr[p]
                    /\ outcome'[p] = outcome[p]
                    /\ Last(calls'[p]).s \in {"INFO", "WARN"} => pc'[p] = pc[p]
                    /\ Last(calls'[p]).s \in {"ERROR", "FATAL"} => pc'[p] = "log_echo"
             /\ (EchoStep(p) /\ LoggerDB(p) = "nil") =>
                    /\ stderr'[p] = Append(stderr[p], ErrorLine)
                    /\ pc'[p] = IF Last(calls[p]).s = "FATAL" THEN "log_exit" ELSE "done"]_vars

\* OpenDB failed, the caller built its Logger on the nil handle and called
\* Fatal: the line is on the diagnostic channel and the process has ended.
C11_Witness ==
    \E p \in Procs :
        /\ NilLogger(p)
        /\ Last(calls[p]).s = "FATAL"
        /\ stderr[p] = <<ErrorLine>>
        /\ outcome[p] = "fatal"

(* ------------------------------------------------------------------ C12 *)

ZeroString(k) == [i \in 1..k |-> "0"]

\* C12: for every string a and every size, ZeroFill(a, size) does not fail
\* and returns a when len(a) >= size, and otherwise size - len(a) zeros
\* followed by a.
C12_ZeroFillTotal ==
    zf.at # "call" =>
        /\ zf.at = "ret"
        /\ zf.ret.s = IF Len(zf.a) >= zf.size THEN zf.a
                      ELSE ZeroString(zf.size - Len(zf.a)) \o zf.a

(* ------------------------------------------------------------------ C13 *)

ScriptKeys(b) == {t.s : t \in Range(Rows(b, "scripts"))}

\* The (book, chapter, verse-start) keys in stage p's store before its
\* caller's i-th statement: those of its input and those it inserted.
KeysBefore(p, i) ==
    ScriptKeys(stdin[p]) \cup
    {calls[p][j].s : j \in {k \in 1..(i - 1) : calls[p][k].op = "scripts"
                                               /\ calls[p][k].err = "nil"}}

\* C13: through a handle OpenDB returned, an insert of a script segment
\* whose (book, chapter, verse-start) is already in the store fails, and
\* the store of such a handle never holds two segments with the same key.
C13_ScriptKeyUnique ==
    \A p \in Procs :
        /\ \A i \in 1..Len(calls[p]) :
               (calls[p][i].op = "scripts" /\ calls[p][i].s \in KeysBefore(p, i)) =>
                   calls[p][i].err = "UNIQUE constraint failed"
        /\ Acquired(p) => ~HasDuplicates(Store(p), "scripts")

\* The second stage's insert of a verse the first stage had inserted and
\* emitted was refused.
C13_Witness ==
    /\ outcome["p1"] = "emitted"
    /\ \E i \in 1..Len(calls["p1"]) :
           calls["p1"][i].op = "scripts" /\ calls["p1"][i].err = "nil"
    /\ pc["p2"] = "ready"
    /\ Len(calls["p2"]) = 1
    /\ calls["p2"][1].op = "scripts"
    /\ calls["p2"][1].s \in ScriptKeys(stdin["p2"])
    /\ calls["p2"][1].err = "UNIQUE constraint failed"

(* ------------------------------------------------------------------ C14 *)

\* The stage that takes the step.
Acts(p) == pc'[p] # pc[p] \/ calls'[p] # calls[p]

\* C14: two live sessions never hold the same store; os.CreateTemp gives a
\* session a name under which no file exists at that moment; and a step of
\* one session changes no file that another live session holds.
C14_StoresArePrivate ==
    /\ [](\A p, q \in Procs : \A n \in Names :
             (Holds(p, n) /\ Holds(q, n)) => p = q)
    /\ [][\A p \in Procs :
             /\ (pc[p] = "start" /\ pc'[p] = "copy") =>
                    /\ tmpPath'[p] \in Names
                    /\ ~fs[tmpPath'[p]].exists
                    /\ \A q \in Procs \ {p} : ~Holds(q, tmpPath'[p])
             /\ Acts(p) =>
                    \A n \in Names :
                        fs'[n] # fs[n] => \A q \in Procs \ {p} : ~Holds(q, n)]_vars

\* Two sessions are live at once, each on its own store, and the first one
\* has written to its own.
C14_Witness ==
    /\ pc["p1"] = "ready"
    /\ pc["p2"] = "copy"
    /\ tmpPath["p1"] # tmpPath["p2"]
    /\ fs[tmpPath["p1"]].exists
    /\ fs[tmpPath["p2"]].exists
    /\ calls["p1"] # <<>>

(* ------------------------------------------------------------------ C16 *)

\* The tables and indices the statements before the i-th create.
CreatedBefore(i) ==
    {stmts[j].name : j \in {k \in 1..(i - 1) : stmts[k].op # "pragma"}}

SchemaFailed(p) == pc[p] = "schema_ret" /\ schemaRet[p].err # "nil"

\* C16: when a statement of createSchema fails, the statements before it
\* were executed and none after it; OpenDB then closes the handle, removes
\* the store and returns the error with no handle; and a handle OpenDB
\* returned is on a store that holds the whole schema.
C16_BootstrapFailFast ==
    \A p \in Procs :
        /\ SchemaFailed(p) =>
               /\ schemaRet[p].done \in 1..Len(stmts)
               /\ IF Valid(stdin[p])
                  THEN ObjNames(Store(p)) =
                           ObjNames(stdin[p]) \cup CreatedBefore(schemaRet[p].done)
                  ELSE Store(p) = stdin[p]
        /\ (AcquireFailed(p) /\ schemaRet[p].err \notin {"unset", "nil"}) =>
               /\ openRet[p] = Ret("schema exec", FALSE, NoPath)
               /\ db[p] = "closed"
               /\ NoStoreOf(p)
        /\ (Acquired(p) /\ calls[p] = <<>>) =>
               /\ schemaRet[p] = [err |-> "nil", done |-> Len(stmts)]
               /\ HasSchema(Store(p))

\* OpenDB returned the error of a statement in the middle of the sequence,
\* after earlier statements had created their tables.
C16_Witness ==
    \E p \in Procs :
        /\ AcquireFailed(p)
        /\ openRet[p].err = "schema exec"
        /\ schemaRet[p].done \in 3..(Len(stmts) - 1)
        /\ removeErr[p] = "nil"

(* ------------------------------------------------------------------ C17 *)

\* The place of the statement that creates the table or index.
Pos(name) == CHOOSE i \in 1..Len(stmts) : stmts[i].name = name

\* C17: in the statement list every referenced table comes before the
\* table that references it and every table before its indices, so that no
\* statement of createSchema ever finds its table missing.
C17_DependencyOrder ==
    /\ \A ref \in References : Pos(ref[2]) < Pos(ref[1])
    /\ \A i \in 1..Len(stmts) :
           stmts[i].op \in {"index", "unique"} => Pos(stmts[i].on) < i
    /\ \A p \in Procs : schemaRet[p].err # "no such table"

\* createSchema ran all its statements on an empty piped input.
C17_Witness ==
    \E p \in Procs :
        /\ pc[p] = "schema_ret"
        /\ stdinReads[p] = 1
        /\ stdin[p] = <<>>
        /\ schemaRet[p] = [err |-> "nil", done |-> Len(stmts)]
        /\ ObjNames(Store(p)) = SchemaObjects

(* ------------------------------------------------------------------ C18 *)

\* readDB is past its copy step.
PastCopy(p) ==
    \/ pc[p] \in {"open", "ping", "schema", "schema_ret"}
    \/ Acquired(p)
    \/ pc[p] = "done" /\ openRet[p].err # "creating temp db"

\* C18: the classifier answers true or false and raises no error; it has
\* written and read nothing when it returns; when Stat fails on the input
\* it answers false and readDB copies the input; when Stat fails on the
\* output it answers false and OutputDB goes through writeDB, which writes
\* the store to the output.
C18_ClassifierFailsOpen ==
    \A p \in Procs :
        /\ inTerminal[p] \in BOOLEAN /\ outTerminal[p] \in BOOLEAN
        /\ pc[p] = "copy" =>
               /\ openRet[p].err = "unset"
               /\ stdinReads[p] = 0 /\ stdout[p] = <<>> /\ stderr[p] = <<>>
               /\ Store(p) = <<>>
        /\ inStat[p] = "statErr" =>
               /\ ~inTerminal[p]
               /\ PastCopy(p) => stdinReads[p] = 1
               /\ pc[p] \in {"open", "ping", "schema"} => Store(p) = stdin[p]
        /\ outStat[p] = "statErr" =>
               /\ ~outTerminal[p]
               /\ EmitPiped(p)
               /\ NoticeLines(stderr[p]) = <<>>
               /\ pc[p] = "wr_close" => emitRet[p] = "unset" /\ stdout[p] = <<>>
               /\ (pc[p] = "out_ret" /\ emitRet[p] = "nil") => stdout[p] = Store(p)

\* Stat failed on the input and OpenDB returned a handle on a copy of it.
C18_Witness ==
    \E p \in Procs :
        /\ inStat[p] = "statErr"
        /\ pc[p] = "ready"
        /\ stdinReads[p] = 1
        /\ DataRows(stdin[p]) # <<>>
        /\ DataRows(Store(p)) = DataRows(stdin[p])

(* ------------------------------------------------------------------ C20 *)

\* C20: on a piped output, when db.Close() or os.Open fails OutputDB
\* returns that error with no byte on the output; io.Copy starts only after
\* both returned nil.
C20_NoOutputBeforeCloseAndReopen ==
    \A p \in Procs :
        /\ (EmitPiped(p) /\ emitRet[p] \in {"closing db before write",
                                             "opening db file for output"}) =>
               /\ stdout[p] = <<>>
               /\ pc[p] \in {"out_ret", "done"}
        /\ (EmitPiped(p) /\ closeErr[p] = "close failed") =>
               emitRet[p] = "closing db before write"
        /\ pc[p] = "wr_copy" =>
               /\ closeErr[p] = "nil"
               /\ emitRet[p] = "unset"
               /\ fs[tmpPath[p]].exists
               /\ stdout[p] = <<>>

\* OutputDB returned os.Open's error, after a successful Close of a store
\* that holds a row, with nothing on the output.
C20_Witness ==
    \E p \in Procs :
        /\ EmitReturned(p)
        /\ emitRet[p] = "opening db file for output"
        /\ closeErr[p] = "nil"
        /\ \E i \in 1..Len(calls[p]) : calls[p][i].err = "nil"
        /\ stdout[p] = <<>>

(* ------------------------------------------------------------------ C15 *)

\* The logging operation of this step has a handle and its insert succeeds.
LogStepOk(p) == LogStep(p) /\ LoggerDB(p) # "nil" /\ Last(calls'[p]).err = "nil"

LogStepFailed(p) ==
    LogStep(p) /\ LoggerDB(p) # "nil" /\ Last(calls'[p]).err \notin {"nil", "skipped"}

\* C19: when the insert of a log row fails, the operation prints one
\* warning line to the diagnostic channel, writes no row, does not crash
\* and goes on as it does after a successful insert: Info and Warn return,
\* Error prints its line, Fatal prints it and ends the process.
C19_InsertFailureDegrades ==
    /\ [](\A p \in Procs : pc[p] # "panic")
    /\ [][\A p \in Procs :
             /\ LogStepFailed(p) =>
                    /\ stderr'[p] = Append(stderr[p], WarnLine)
                    /\ fs' = fs
                    /\ outcome'[p] = outcome[p]
                    /\ Last(calls'[p]).s \in {"INFO", "WARN"} => pc'[p] = pc[p]
                    /\ Last(calls'[p]).s \in {"ERROR", "FATAL"} => pc'[p] = "log_echo"
             /\ (EchoStep(p) /\ Last(calls[p]).err \notin {"nil", "skipped"}) =>
                    /\ Last(stderr[p]) = WarnLine
                    /\ stderr'[p] = Append(stderr[p], ErrorLine)
                    /\ pc'[p] = IF Last(calls[p]).s = "FATAL" THEN "log_exit" ELSE Back(p)
             /\ (pc[p] = "log_exit" /\ pc'[p] # "log_exit") =>
                    pc'[p] = "exit" /\ outcome'[p] = "fatal"]_vars

\* Fatal on an open handle whose insert failed: the warning, then the
\* error line, then the end of the process, and no row.
C19_Witness ==
    \E p \in Procs : \E n \in Names :
        /\ outcome[p] = "fatal"
        /\ calls[p] = <<Call("log", "FATAL", 0, "disk I/O error")>>
        /\ stderr[p] = <<WarnLine, ErrorLine>>
        /\ fs[n].exists
        /\ Rows(fs[n].data, "log") = <<>>

====
